---- MODULE Spec2Model ----
(***************************************************************************)
(* Model of the image similarity-matching engine:                          *)
(*   clip_comparison.py  - load_clip_model, get_embedding,                 *)
(*                         cosine_similarity, confidence_score,            *)
(*                         confidence_label, compare_images_clip,          *)
(*                         build_faiss_index, reverse_image_search_clip    *)
(*   compare_images.py   - compare_original_with_downloaded, print_summary *)
(*                                                                         *)
(* Real numbers (similarities, scores, ratios, means) are exact rationals  *)
(* <<numerator, denominator>> in lowest terms with a positive denominator. *)
(* Embeddings are integer vectors whose Euclidean norm is an integer, so   *)
(* cosine similarity is an exact rational.                                 *)
(***************************************************************************)
EXTENDS Integers, Sequences, FiniteSets, TLC

\* ------------------------------------------------------------------------
\* Bounds of the model
\* ------------------------------------------------------------------------
MaxRefs == 2
MaxCands == 2
MaxCorpus == 2
MaxTopK == 3
MaxCalls == 3
ScoreGrain == 4
CapOdd == 2

\* ------------------------------------------------------------------------
\* Program constants
\* ------------------------------------------------------------------------
Percent == 100
ExtremelyAbove == 95
VeryAbove == 90
PossiblyAbove == 85
TopN == 10

None == <<>>

\* ------------------------------------------------------------------------
\* Exact rational arithmetic
\* ------------------------------------------------------------------------
Abs(x) == IF x < 0 THEN -x ELSE x

RECURSIVE GCD(_, _)
GCD(a, b) == IF b = 0 THEN a ELSE GCD(b, a % b)

Rat(n, d) ==
    LET g == GCD(Abs(n), d)
    IN  IF n = 0 THEN <<0, 1>> ELSE <<n \div g, d \div g>>

RZero == <<0, 1>>
ROne == <<1, 1>>
RInt(n) == <<n, 1>>
RLe(a, b) == a[1] * b[2] <= b[1] * a[2]
RLt(a, b) == a[1] * b[2] < b[1] * a[2]
RGe(a, b) == RLe(b, a)
RGt(a, b) == RLt(b, a)
RAdd(a, b) == Rat(a[1] * b[2] + b[1] * a[2], a[2] * b[2])
RMulInt(a, n) == Rat(a[1] * n, a[2])
RDivInt(a, n) == Rat(a[1], a[2] * n)
RMin(a, b) == IF RLt(b, a) THEN b ELSE a
RMax(a, b) == IF RGt(b, a) THEN b ELSE a

RECURSIVE RSum(_)
RSum(s) == IF s = <<>> THEN RZero ELSE RAdd(s[1], RSum(Tail(s)))

RECURSIVE IntSum(_)
IntSum(s) == IF s = <<>> THEN 0 ELSE s[1] + IntSum(Tail(s))

Min(a, b) == IF a < b THEN a ELSE b

ISqrt(n) == CHOOSE r \in 0..n : r * r <= n /\ (r + 1) * (r + 1) > n

\* ------------------------------------------------------------------------
\* Similarity scorer (pure functions)
\* ------------------------------------------------------------------------
Dot(a, b) == IntSum([k \in 1..Len(a) |-> a[k] * b[k]])

\* np.linalg.norm
VecNorm(a) == ISqrt(Dot(a, a))

\* np.dot raises when the two vectors differ in length
CosineRaises(a, b) == Len(a) # Len(b)

cosine_similarity(a, b) == Rat(Dot(a, b), VecNorm(a) * VecNorm(b))

\* A score that is not floored at 0.
confidence_score_unfloored(similarity) ==
    RMulInt(RMin(ROne, similarity), Percent)

confidence_score(similarity) ==
    RMulInt(RMax(RZero, RMin(ROne, similarity)), Percent)

\* Thresholds that include the score equal to them.
confidence_label_inclusive(score) ==
    IF RGe(score, RInt(ExtremelyAbove)) THEN "Extremely likely the same image"
    ELSE IF RGe(score, RInt(VeryAbove)) THEN "Very likely the same image"
    ELSE IF RGe(score, RInt(PossiblyAbove)) THEN "Possibly the same image"
    ELSE "Unlikely to be the same image"

confidence_label(score) ==
    IF RGt(score, RInt(ExtremelyAbove)) THEN "Extremely likely the same image"
    ELSE IF RGt(score, RInt(VeryAbove)) THEN "Very likely the same image"
    ELSE IF RGt(score, RInt(PossiblyAbove)) THEN "Possibly the same image"
    ELSE "Unlikely to be the same image"

\* ------------------------------------------------------------------------
\* The files the program reads
\* ------------------------------------------------------------------------
\* A file is present or not; a present file decodes to an embedding or not.
MissingFile == [exists |-> FALSE, emb |-> None]
Undecodable == [exists |-> TRUE, emb |-> None]
ImageFile(e) == [exists |-> TRUE, emb |-> e]

\* Embeddings of reference images, and of candidate images: the last candidate
\* embedding has another dimension than every reference embedding.
RefEmbeddings == {<<1, 0>>, <<0, 1>>}
CandEmbeddings == {<<3, 4>>, <<1, 0>>, <<0, -1>>, <<1, 0, 0>>}

RefFiles == {MissingFile, Undecodable} \cup {ImageFile(e) : e \in RefEmbeddings}
CandFiles == {MissingFile, Undecodable} \cup {ImageFile(e) : e \in CandEmbeddings}

SeqsUpTo(S, n) == UNION {[1..k -> S] : k \in 0..n}

NoFolder == [exists |-> FALSE, files |-> <<>>]
Folders(S, n) == {NoFolder} \cup {[exists |-> TRUE, files |-> f] : f \in SeqsUpTo(S, n)}

\* similarity_threshold=0.60 of compare_original_with_downloaded
BatchThreshold == Rat(60, Percent)

\* ------------------------------------------------------------------------
\* State
\* ------------------------------------------------------------------------
VARIABLES
    \* the environment
    original_folder, downloaded_folder, similarity_threshold, cuda_available,
    image_folder, query_image, top_k,
    \* module globals of clip_comparison.py
    clip_model, clip_preprocess, clip_device,
    \* number of completed clip.load calls; whether load_clip_model has returned
    \* a model loaded by an earlier call
    load_count, model_reused,
    \* control
    pc, fault, calls,
    \* compare_original_with_downloaded
    orig_idx, results, comparison, summary,
    \* compare_images_clip
    original_embedding, cand_idx, exact_matches, total_compared,
    similarities, match_details,
    \* reverse_image_search_clip
    file_idx, embeddings, paths, index_built, index_searched, search_results,
    \* argument and result of a scorer function
    fn_in, fn_out

envVars == <<original_folder, downloaded_folder, similarity_threshold,
             cuda_available, image_folder, query_image, top_k>>
clipVars == <<clip_model, clip_preprocess, clip_device, load_count, model_reused>>
batchVars == <<orig_idx, results, comparison, summary>>
cmpVars == <<original_embedding, cand_idx, exact_matches, total_compared,
             similarities, match_details>>
searchVars == <<file_idx, embeddings, paths, index_built, index_searched,
                search_results>>
fnVars == <<fn_in, fn_out>>
vars == <<envVars, clipVars, pc, fault, calls, batchVars, cmpVars, searchVars,
          fnVars>>

NoValue == [absent |-> TRUE]

\* ------------------------------------------------------------------------
\* Embedding provider
\* ------------------------------------------------------------------------
\* get_embedding with the model passed in: Image.open or the encoder raising is
\* caught and gives None.
get_embedding(file) == IF file.exists THEN file.emb ELSE None

\* load_clip_model is called at these positions; each continues at AfterLoad.
LoadPoints == {"cmp_load", "search_load", "emb_load", "load_call"}

AfterLoad(p) ==
    CASE p = "cmp_load" -> "cmp_ref"
      [] p = "search_load" -> "search_loop"
      [] p = "emb_load" -> "emb_run"
      [] p = "load_call" -> "idle"

SelectDevice == IF cuda_available THEN "cuda" ELSE "cpu"

\* A load on every call.
NeedsLoadAlways == TRUE

\* the test "_clip_model is None" of load_clip_model
NeedsLoad == clip_model = "None"

\* load_clip_model, model already loaded: the globals are returned as they are
LoadCached ==
    /\ pc \in LoadPoints
    /\ ~NeedsLoad
    /\ model_reused' = TRUE
    /\ pc' = AfterLoad(pc)
    /\ UNCHANGED <<envVars, clip_model, clip_preprocess, clip_device, load_count,
                   fault, calls, batchVars, cmpVars, searchVars, fnVars>>

\* load_clip_model, first load: clip.load returns
LoadSucceed ==
    /\ pc \in LoadPoints
    /\ NeedsLoad
    /\ clip_device' = SelectDevice
    /\ clip_model' = "ViT-B/32"
    /\ clip_preprocess' = "preprocess"
    /\ load_count' = load_count + 1
    /\ UNCHANGED model_reused
    /\ pc' = AfterLoad(pc)
    /\ UNCHANGED <<envVars, fault, calls, batchVars, cmpVars, searchVars, fnVars>>

\* load_clip_model, first load: clip.load raises; the device is already set
LoadFail ==
    /\ pc \in LoadPoints
    /\ NeedsLoad
    /\ clip_device' = SelectDevice
    /\ fault' = "LoadError"
    /\ pc' = "crashed"
    /\ UNCHANGED <<envVars, clip_model, clip_preprocess, load_count,
                   model_reused, calls,
                   batchVars, cmpVars, searchVars, fnVars>>

\* ------------------------------------------------------------------------
\* Pairwise comparator: compare_images_clip
\* ------------------------------------------------------------------------
\* The dictionary returned when the reference is missing or has no embedding.
ZeroResult ==
    [exact_matches |-> 0,
     total_compared |-> 0,
     is_dropshipping |-> FALSE,
     match_ratio |-> RZero,
     similarities |-> <<>>,
     match_details |-> <<>>]

\* The reference image and the candidate paths handed to compare_images_clip.
CurrentRef == original_folder.files[orig_idx]
search_result_paths == downloaded_folder.files

\* A match test that leaves out the threshold itself.
IsMatchStrict(sim, threshold) == RGt(sim, threshold)

\* the match test of compare_images_clip
IsMatch(sim, threshold) == RGe(sim, threshold)

\* A ratio over the candidates handed in, compared or not.
MatchRatioOfAll(matches, compared) ==
    IF compared > 0 THEN Rat(matches, Len(search_result_paths)) ELSE RZero

MatchRatio(matches, compared) ==
    IF compared > 0 THEN Rat(matches, compared) ELSE RZero

\* np.mean(similarities) if similarities else 0.0
MeanSimilarity(sims) ==
    IF sims # <<>> THEN RDivInt(RSum(sims), Len(sims)) ELSE RZero

MatchRecord(path, sim) ==
    [path |-> path,
     similarity |-> sim,
     confidence |-> confidence_score(sim),
     label |-> confidence_label(confidence_score(sim))]

ClearCompareLocals ==
    /\ original_embedding' = None
    /\ cand_idx' = 0
    /\ exact_matches' = 0
    /\ total_compared' = 0
    /\ similarities' = <<>>
    /\ match_details' = <<>>

\* the reference image does not exist: the first early return
CompareMissingRef ==
    /\ pc = "batch_loop"
    /\ orig_idx <= Len(original_folder.files)
    /\ ~CurrentRef.exists
    /\ comparison' = ZeroResult
    /\ pc' = "compared"
    /\ UNCHANGED <<envVars, clipVars, fault, calls, orig_idx, results, summary,
                   cmpVars, searchVars, fnVars>>

\* the reference image exists: go on to load the model
CompareEnter ==
    /\ pc = "batch_loop"
    /\ orig_idx <= Len(original_folder.files)
    /\ CurrentRef.exists
    /\ pc' = "cmp_load"
    /\ UNCHANGED <<envVars, clipVars, fault, calls, batchVars, cmpVars,
                   searchVars, fnVars>>

\* the reference image has no embedding: the second early return
CompareNoRefEmbedding ==
    /\ pc = "cmp_ref"
    /\ get_embedding(CurrentRef) = None
    /\ comparison' = ZeroResult
    /\ pc' = "compared"
    /\ UNCHANGED <<envVars, clipVars, fault, calls, orig_idx, results, summary,
                   cmpVars, searchVars, fnVars>>

\* the reference embedding is there: initialise the accumulators
CompareInit ==
    /\ pc = "cmp_ref"
    /\ get_embedding(CurrentRef) # None
    /\ original_embedding' = get_embedding(CurrentRef)
    /\ exact_matches' = 0
    /\ total_compared' = 0
    /\ similarities' = <<>>
    /\ match_details' = <<>>
    /\ cand_idx' = 1
    /\ pc' = "cmp_loop"
    /\ UNCHANGED <<envVars, clipVars, fault, calls, batchVars, searchVars, fnVars>>

\* A candidate is skipped when its file is missing, when it has no embedding, or
\* when comparing it raises.
CandidateSkipped(file) ==
    \/ ~file.exists
    \/ get_embedding(file) = None
    \/ CosineRaises(original_embedding, get_embedding(file))

\* A skip that ends the loop instead of going on to the next candidate.
NextCandidateBreak(skipped) ==
    IF skipped THEN Len(search_result_paths) + 1 ELSE cand_idx + 1

\* "continue", and the end of the loop body: the next candidate is taken
NextCandidate(skipped) == cand_idx + 1

\* one iteration of the loop over search_result_paths
CompareStep ==
    /\ pc = "cmp_loop"
    /\ cand_idx <= Len(search_result_paths)
    /\ LET file == search_result_paths[cand_idx]
       IN  IF CandidateSkipped(file)
           THEN UNCHANGED <<exact_matches, total_compared, similarities,
                            match_details>>
           ELSE LET sim == cosine_similarity(original_embedding,
                                             get_embedding(file))
                IN  /\ similarities' = Append(similarities, sim)
                    /\ total_compared' = total_compared + 1
                    /\ match_details' =
                           Append(match_details, MatchRecord(cand_idx, sim))
                    /\ exact_matches' =
                           IF IsMatch(sim, similarity_threshold)
                           THEN exact_matches + 1
                           ELSE exact_matches
    /\ cand_idx' = NextCandidate(CandidateSkipped(search_result_paths[cand_idx]))
    /\ UNCHANGED <<envVars, clipVars, pc, fault, calls, batchVars,
                   original_embedding, searchVars, fnVars>>

\* the loop is over: build and return the result
CompareReturn ==
    /\ pc = "cmp_loop"
    /\ cand_idx > Len(search_result_paths)
    /\ comparison' =
           [exact_matches |-> exact_matches,
            total_compared |-> total_compared,
            is_dropshipping |-> exact_matches > 0,
            match_ratio |-> MatchRatio(exact_matches, total_compared),
            similarities |-> similarities,
            match_details |-> match_details,
            avg_similarity |-> MeanSimilarity(similarities)]
    /\ ClearCompareLocals
    /\ pc' = "compared"
    /\ UNCHANGED <<envVars, clipVars, fault, calls, orig_idx, results, summary,
                   searchVars, fnVars>>

\* ------------------------------------------------------------------------
\* Batch matching orchestrator: compare_original_with_downloaded
\* ------------------------------------------------------------------------
\* list.sort(key=similarity, reverse=True): stable, descending
RECURSIVE InsertDesc(_, _)
InsertDesc(s, r) ==
    IF s = <<>> THEN <<r>>
    ELSE IF RGe(s[1].similarity, r.similarity)
         THEN <<s[1]>> \o InsertDesc(Tail(s), r)
         ELSE <<r>> \o s

RECURSIVE SortBySimilarityDesc(_)
SortBySimilarityDesc(s) ==
    IF s = <<>> THEN <<>>
    ELSE InsertDesc(SortBySimilarityDesc(SubSeq(s, 1, Len(s) - 1)), s[Len(s)])

\* s[:n]
Take(s, n) == SubSeq(s, 1, Min(n, Len(s)))

AboveThreshold(m) == RGe(m.similarity, similarity_threshold)

\* The matches above the threshold, all of them.
TopMatchesNoCap(sorted) == SelectSeq(sorted, AboveThreshold)

\* the matches kept for the report, of the sorted records
TopMatches(sorted) == Take(SelectSeq(sorted, AboveThreshold), TopN)

\* a folder's images cannot be compared: it does not exist or holds no image
BatchEarlyReturn ==
    /\ pc = "batch_entry"
    /\ \/ ~original_folder.exists
       \/ ~downloaded_folder.exists
       \/ original_folder.files = <<>>
       \/ downloaded_folder.files = <<>>
    /\ results' = <<>>
    /\ pc' = "batch_done"
    /\ UNCHANGED <<envVars, clipVars, fault, calls, orig_idx, comparison, summary,
                   cmpVars, searchVars, fnVars>>

\* both folders hold images: start the loop over the originals
BatchBegin ==
    /\ pc = "batch_entry"
    /\ original_folder.exists
    /\ downloaded_folder.exists
    /\ original_folder.files # <<>>
    /\ downloaded_folder.files # <<>>
    /\ results' = <<>>
    /\ orig_idx' = 1
    /\ pc' = "batch_loop"
    /\ UNCHANGED <<envVars, clipVars, fault, calls, comparison, summary, cmpVars,
                   searchVars, fnVars>>

\* match_details is the list of the returned dictionary: sorting it sorts the
\* dictionary's own list.
SortedComparison ==
    [comparison EXCEPT !.match_details = SortBySimilarityDesc(@)]

\* the entry of one original is built and stored under its name
BuildEntry ==
    /\ pc = "compared"
    /\ "avg_similarity" \in DOMAIN comparison
    /\ comparison' = SortedComparison
    /\ results' =
           [n \in DOMAIN results \cup {orig_idx} |->
               IF n = orig_idx
               THEN [original_path |-> orig_idx,
                     total_compared |-> comparison.total_compared,
                     exact_matches |-> comparison.exact_matches,
                     match_ratio |-> comparison.match_ratio,
                     avg_similarity |-> comparison.avg_similarity,
                     top_matches |-> TopMatches(SortedComparison.match_details)]
               ELSE results[n]]
    /\ orig_idx' = orig_idx + 1
    /\ pc' = "batch_loop"
    /\ UNCHANGED <<envVars, clipVars, fault, calls, summary, cmpVars, searchVars,
                   fnVars>>

\* comparison['avg_similarity'] of a dictionary without that key raises KeyError
BuildEntryKeyError ==
    /\ pc = "compared"
    /\ "avg_similarity" \notin DOMAIN comparison
    /\ comparison' = SortedComparison
    /\ fault' = "KeyError"
    /\ pc' = "crashed"
    /\ UNCHANGED <<envVars, clipVars, calls, orig_idx, results, summary, cmpVars,
                   searchVars, fnVars>>

\* every original is done: the report is returned
BatchReturn ==
    /\ pc = "batch_loop"
    /\ orig_idx > Len(original_folder.files)
    /\ comparison' = NoValue
    /\ orig_idx' = 0
    /\ pc' = "batch_done"
    /\ UNCHANGED <<envVars, clipVars, fault, calls, results, summary, cmpVars,
                   searchVars, fnVars>>

\* ------------------------------------------------------------------------
\* print_summary
\* ------------------------------------------------------------------------
\* A count of every entry, with matches or not.
CountEveryEntry(f, S) == Cardinality(S)

\* sum(1 for r in results.values() if r['exact_matches'] > 0)
RECURSIVE CountWithMatches(_, _)
CountWithMatches(f, S) ==
    IF S = {} THEN 0
    ELSE LET n == CHOOSE n \in S : TRUE
         IN  (IF f[n].exact_matches > 0 THEN 1 ELSE 0)
             + CountWithMatches(f, S \ {n})

\* sum(r['exact_matches'] for r in results.values())
RECURSIVE SumMatches(_, _)
SumMatches(f, S) ==
    IF S = {} THEN 0
    ELSE LET n == CHOOSE n \in S : TRUE
         IN  f[n].exact_matches + SumMatches(f, S \ {n})

\* sum(r['avg_similarity'] for r in results.values())
RECURSIVE SumAvgSimilarity(_, _)
SumAvgSimilarity(f, S) ==
    IF S = {} THEN RZero
    ELSE LET n == CHOOSE n \in S : TRUE
         IN  RAdd(f[n].avg_similarity, SumAvgSimilarity(f, S \ {n}))

Summary(res) ==
    LET total_originals == Cardinality(DOMAIN res)
    IN  [total_originals |-> total_originals,
         total_with_matches |-> CountWithMatches(res, DOMAIN res),
         total_matches |-> SumMatches(res, DOMAIN res),
         avg_similarity |->
             IF total_originals > 0
             THEN RDivInt(SumAvgSimilarity(res, DOMAIN res), total_originals)
             ELSE RZero]

\* print_summary(results) of the main program
PrintSummary ==
    /\ pc = "batch_done"
    /\ summary' = IF DOMAIN results = {} THEN NoValue ELSE Summary(results)
    /\ pc' = "batch_summarized"
    /\ UNCHANGED <<envVars, clipVars, fault, calls, orig_idx, results, comparison,
                   cmpVars, searchVars, fnVars>>

\* ------------------------------------------------------------------------
\* The batch run: python compare_images.py in a fresh process
\* ------------------------------------------------------------------------
InitClip ==
    /\ clip_model = "None"
    /\ clip_preprocess = "None"
    /\ clip_device = "None"
    /\ load_count = 0
    /\ model_reused = FALSE

InitBatchLocals ==
    /\ orig_idx = 0
    /\ results = <<>>
    /\ comparison = NoValue
    /\ summary = NoValue
    /\ original_embedding = None
    /\ cand_idx = 0
    /\ exact_matches = 0
    /\ total_compared = 0
    /\ similarities = <<>>
    /\ match_details = <<>>

InitSearchLocals ==
    /\ file_idx = 0
    /\ embeddings = <<>>
    /\ paths = <<>>
    /\ index_built = FALSE
    /\ index_searched = FALSE
    /\ search_results = NoValue

NoSearchEnv ==
    /\ image_folder = <<>>
    /\ query_image = MissingFile
    /\ top_k = 0

NoBatchEnv ==
    /\ original_folder = NoFolder
    /\ downloaded_folder = NoFolder
    /\ similarity_threshold = BatchThreshold

NoFn ==
    /\ fn_in = NoValue
    /\ fn_out = NoValue

Init ==
    /\ original_folder \in Folders(RefFiles, MaxRefs)
    /\ downloaded_folder \in Folders(CandFiles, MaxCands)
    /\ similarity_threshold = BatchThreshold
    /\ cuda_available \in BOOLEAN
    /\ NoSearchEnv
    /\ InitClip
    /\ pc = "batch_entry"
    /\ fault = "none"
    /\ calls = 0
    /\ InitBatchLocals
    /\ InitSearchLocals
    /\ NoFn

NextBatch ==
    \/ BatchEarlyReturn
    \/ BatchBegin
    \/ CompareMissingRef
    \/ CompareEnter
    \/ LoadCached
    \/ LoadSucceed
    \/ LoadFail
    \/ CompareNoRefEmbedding
    \/ CompareInit
    \/ CompareStep
    \/ CompareReturn
    \/ BuildEntry
    \/ BuildEntryKeyError
    \/ BatchReturn
    \/ PrintSummary

Next == NextBatch

Spec == Init /\ [][Next]_vars

\* ------------------------------------------------------------------------
\* One call of compare_images_clip, with any candidate list and threshold
\* ------------------------------------------------------------------------
\* similarity_threshold=0.85, the default of compare_images_clip
CompareThreshold == Rat(85, Percent)

InitCompare ==
    /\ original_folder \in {[exists |-> TRUE, files |-> <<f>>] : f \in RefFiles}
    /\ downloaded_folder \in
           {[exists |-> TRUE, files |-> f] : f \in SeqsUpTo(CandFiles, MaxCands)}
    /\ similarity_threshold \in {BatchThreshold, CompareThreshold}
    /\ cuda_available \in BOOLEAN
    /\ NoSearchEnv
    /\ InitClip
    /\ pc = "batch_loop"
    /\ fault = "none"
    /\ calls = 0
    /\ orig_idx = 1
    /\ results = <<>>
    /\ comparison = NoValue
    /\ summary = NoValue
    /\ original_embedding = None
    /\ cand_idx = 0
    /\ exact_matches = 0
    /\ total_compared = 0
    /\ similarities = <<>>
    /\ match_details = <<>>
    /\ InitSearchLocals
    /\ NoFn

NextCompare ==
    \/ CompareMissingRef
    \/ CompareEnter
    \/ LoadSucceed
    \/ LoadFail
    \/ CompareNoRefEmbedding
    \/ CompareInit
    \/ CompareStep
    \/ CompareReturn

SpecCompare == InitCompare /\ [][NextCompare]_vars

\* ------------------------------------------------------------------------
\* Properties
\* ------------------------------------------------------------------------
Returned == pc = "compared"

\* what the environment says of the current call
RefAvailable == CurrentRef.exists /\ CurrentRef.emb # None

Comparable(file) ==
    /\ file.exists
    /\ file.emb # None
    /\ Len(file.emb) = Len(CurrentRef.emb)

ComparableIdx(upto) ==
    {c \in 1..Min(upto, Len(search_result_paths)) :
        Comparable(search_result_paths[c])}

SimOf(c) == cosine_similarity(CurrentRef.emb, search_result_paths[c].emb)

ResultKeys ==
    {"exact_matches", "total_compared", "is_dropshipping", "match_ratio",
     "similarities", "match_details", "avg_similarity"}

\* C1: when the reference image is missing or has no embedding, the result of
\* compare_images_clip has every field defined and zero (total_compared = 0,
\* exact_matches = 0, match_ratio = 0, avg_similarity = 0, is_dropshipping
\* false, match_details empty), and the orchestrator reads it without a fault.
C1_ZeroResultReadable ==
    /\ (Returned /\ ~RefAvailable) =>
           /\ ResultKeys \subseteq DOMAIN comparison
           /\ comparison.total_compared = 0
           /\ comparison.exact_matches = 0
           /\ comparison.match_ratio = RZero
           /\ comparison.avg_similarity = RZero
           /\ comparison.is_dropshipping = FALSE
           /\ comparison.match_details = <<>>
    /\ fault # "KeyError"

\* C3: every result of compare_images_clip has exact_matches <= total_compared
\* and 0 <= match_ratio <= 1; match_ratio is exact_matches / total_compared
\* when total_compared > 0 and 0 when total_compared = 0.
C3_RatioInvariant ==
    Returned =>
        /\ comparison.exact_matches <= comparison.total_compared
        /\ RLe(RZero, comparison.match_ratio)
        /\ RLe(comparison.match_ratio, ROne)
        /\ comparison.total_compared > 0 =>
               comparison.match_ratio[1] * comparison.total_compared
                   = comparison.exact_matches * comparison.match_ratio[2]
        /\ comparison.total_compared = 0 => comparison.match_ratio = RZero

C3_Witness ==
    /\ Returned
    /\ comparison.exact_matches > 0
    /\ comparison.exact_matches < comparison.total_compared

\* C4: a candidate counts as a match iff its similarity >= threshold, the
\* threshold itself included: exact_matches is the number of recorded
\* candidates whose similarity >= threshold, and is_dropshipping is true iff
\* exact_matches > 0.
C4_MatchCount ==
    (Returned /\ RefAvailable) =>
        /\ comparison.exact_matches =
               Cardinality({c \in ComparableIdx(Len(search_result_paths)) :
                               SimOf(c)[1] * similarity_threshold[2]
                                   >= similarity_threshold[1] * SimOf(c)[2]})
        /\ comparison.exact_matches =
               Cardinality({k \in 1..Len(comparison.match_details) :
                               ~RLt(comparison.match_details[k].similarity,
                                    similarity_threshold)})
        /\ comparison.is_dropshipping <=> comparison.exact_matches > 0

C4_Witness ==
    /\ Returned
    /\ RefAvailable
    /\ comparison.exact_matches = 1
    /\ \E k \in 1..Len(comparison.match_details) :
           comparison.match_details[k].similarity = similarity_threshold
    /\ \E k \in 1..Len(comparison.match_details) :
           RLt(comparison.match_details[k].similarity, similarity_threshold)

\* C5: a candidate whose file is missing, that has no embedding or whose
\* comparison raises is skipped: it adds nothing to total_compared,
\* similarities or match_details, the later candidates are still processed,
\* and on return total_compared = len(match_details) = len(similarities) = the
\* number of candidates that were compared.
C5_SkipsDoNotAbort ==
    /\ pc = "cmp_loop" =>
           /\ total_compared = Cardinality(ComparableIdx(cand_idx - 1))
           /\ Len(match_details) = total_compared
           /\ Len(similarities) = total_compared
    /\ (Returned /\ RefAvailable) =>
           /\ comparison.total_compared
                  = Cardinality(ComparableIdx(Len(search_result_paths)))
           /\ Len(comparison.match_details) = comparison.total_compared
           /\ Len(comparison.similarities) = comparison.total_compared
           /\ {comparison.match_details[k].path :
                  k \in 1..Len(comparison.match_details)}
                  = ComparableIdx(Len(search_result_paths))

C5_Witness ==
    /\ Returned
    /\ RefAvailable
    /\ Len(search_result_paths) = 2
    /\ ~Comparable(search_result_paths[1])
    /\ comparison.total_compared = 1
    /\ comparison.match_details[1].path = 2

\* the report has been returned by compare_original_with_downloaded
Reported == pc \in {"batch_done", "batch_summarized"}

References == 1..Len(original_folder.files)

CandidatesPresent == downloaded_folder.exists /\ downloaded_folder.files # <<>>

ReportAggregates ==
    (pc = "batch_summarized" /\ DOMAIN results # {}) =>
        /\ summary.total_originals = Cardinality(DOMAIN results)
        /\ summary.total_with_matches =
               Cardinality({n \in DOMAIN results : results[n].exact_matches > 0})
        /\ summary.total_matches =
               IntSum([n \in 1..Len(results) |-> results[n].exact_matches])
        /\ RMulInt(summary.avg_similarity, Cardinality(DOMAIN results)) =
               RSum([n \in 1..Len(results) |-> results[n].avg_similarity])

\* C6 as stated: the batch report holds exactly one entry per reference image,
\* keyed by the reference's identity, and the aggregates are the number of
\* entries, the number of entries with exact_matches > 0, the sum of
\* exact_matches and the mean of the avg_similarity values.
C6_OneEntryPerReference ==
    /\ Reported =>
           /\ DOMAIN results = References
           /\ \A n \in DOMAIN results : results[n].original_path = n
    /\ ReportAggregates

\* C6 amended: the report holds exactly one entry per reference image when the
\* candidate folder exists and holds an image, and no entry otherwise; the
\* aggregates of a report that has entries are as stated.
C6_ReportEntries ==
    /\ Reported =>
           /\ DOMAIN results = IF CandidatesPresent THEN References ELSE {}
           /\ \A n \in DOMAIN results : results[n].original_path = n
    /\ ReportAggregates

C6_Witness ==
    /\ pc = "batch_summarized"
    /\ summary # NoValue
    /\ summary.total_originals = 2
    /\ summary.total_with_matches = 1
    /\ summary.total_matches = 2
    /\ RGt(summary.avg_similarity, RZero)

\* C8: the result returned by compare_images_clip is not changed by the
\* orchestrator: its match_details keep their contents and order, aligned with
\* similarities.
C8_NeverMutated == [][Returned => comparison' = comparison]_vars

\* ------------------------------------------------------------------------
\* Top-N capping: one original against more than TopN candidates
\* ------------------------------------------------------------------------
\* candidates at the threshold, above it and below it, for the original <<1, 0>>
AtThreshold == ImageFile(<<3, 4>>)
AboveIt == ImageFile(<<1, 0>>)
BelowIt == ImageFile(<<0, -1>>)
CapCands == TopN + 1

\* CapCands candidates, all above the threshold but for those at the positions
\* odd, which are at or below it
CapFolders(odd) ==
    {[c \in 1..CapCands |-> IF c \in odd THEN g[c] ELSE AboveIt] :
        g \in [odd -> {AtThreshold, BelowIt}]}

OddSets == {S \in SUBSET (1..CapCands) : Cardinality(S) <= CapOdd}

InitCap ==
    /\ original_folder = [exists |-> TRUE, files |-> <<ImageFile(<<1, 0>>)>>]
    /\ downloaded_folder \in
           {[exists |-> TRUE, files |-> f] :
               f \in UNION {CapFolders(odd) : odd \in OddSets}}
    /\ similarity_threshold = BatchThreshold
    /\ cuda_available = FALSE
    /\ NoSearchEnv
    /\ InitClip
    /\ pc = "batch_entry"
    /\ fault = "none"
    /\ calls = 0
    /\ InitBatchLocals
    /\ InitSearchLocals
    /\ NoFn

SpecCap == (Init \/ InitCap) /\ [][NextBatch]_vars

RefFile(n) == original_folder.files[n]

ComparableTo(n, file) ==
    /\ RefFile(n).exists
    /\ RefFile(n).emb # None
    /\ file.exists
    /\ file.emb # None
    /\ Len(file.emb) = Len(RefFile(n).emb)

ComparedWith(n) ==
    {c \in 1..Len(downloaded_folder.files) :
        ComparableTo(n, downloaded_folder.files[c])}

SimWith(n, c) == cosine_similarity(RefFile(n).emb, downloaded_folder.files[c].emb)

Qualifying(n) ==
    {c \in ComparedWith(n) : ~RLt(SimWith(n, c), similarity_threshold)}

PathsOf(records) == {records[k].path : k \in 1..Len(records)}

\* C2: for every original in the report, top_matches holds only records with
\* similarity >= threshold, sorted by similarity descending, min(10,
\* exact_matches) of them and the highest ones, while total_compared,
\* exact_matches, match_ratio and avg_similarity are those of the whole
\* candidate set.
C2_TopMatches ==
    \A n \in DOMAIN results :
        LET e == results[n]
            tm == e.top_matches
            compared == ComparedWith(n)
            qualifying == Qualifying(n)
            reported == PathsOf(tm)
        IN  /\ Len(tm) = Min(10, e.exact_matches)
            /\ \A k \in 1..Len(tm) :
                   /\ tm[k].path \in qualifying
                   /\ tm[k].similarity = SimWith(n, tm[k].path)
            /\ \A k \in 1..(Len(tm) - 1) :
                   ~RLt(tm[k].similarity, tm[k + 1].similarity)
            /\ Cardinality(reported) = Len(tm)
            /\ e.total_compared = Cardinality(compared)
            /\ e.exact_matches = Cardinality(qualifying)
            /\ \A c \in qualifying \ reported :
                   ~RLt(tm[Len(tm)].similarity, SimWith(n, c))
            /\ e.match_ratio[1] * e.total_compared
                   = e.exact_matches * e.match_ratio[2]
            /\ RMulInt(e.avg_similarity, e.total_compared) =
                   RSum([c \in 1..Len(downloaded_folder.files) |->
                            IF c \in compared THEN SimWith(n, c) ELSE RZero])

C2_Witness ==
    /\ 1 \in DOMAIN results
    /\ results[1].exact_matches > 10
    /\ Len(results[1].top_matches) = 10
    /\ results[1].top_matches[1].similarity
           # results[1].top_matches[10].similarity

\* ------------------------------------------------------------------------
\* Nearest-neighbour search: build_faiss_index, reverse_image_search_clip
\* ------------------------------------------------------------------------
\* A file of the searched folder has a name extension besides its content.
CorpusFile(ext, file) == [ext |-> ext, exists |-> file.exists, emb |-> file.emb]

CorpusEmbeddings == {<<1, 0>>, <<3, 4>>, <<0, 1>>}
CorpusFiles ==
    {CorpusFile(".txt", ImageFile(<<1, 0>>)), CorpusFile(".jpg", Undecodable)}
        \cup {CorpusFile(".jpg", ImageFile(e)) : e \in CorpusEmbeddings}
QueryFiles == {MissingFile, Undecodable, ImageFile(<<1, 0>>), ImageFile(<<0, 1>>)}

\* filename.lower().endswith((".jpg", ".png", ".jpeg"))
IsImageName(file) == file.ext \in {".jpg", ".png", ".jpeg"}

\* Python indexing with an index that may be negative
PyAt(seq, i) == IF i >= 0 THEN seq[i + 1] ELSE seq[Len(seq) + 1 + i]

\* IndexFlatL2: the squared Euclidean distance
SqDist(a, b) == IntSum([d \in 1..Len(a) |-> (a[d] - b[d]) * (a[d] - b[d])])

\* index.search(query, k): the ids of the k nearest vectors by ascending
\* distance, in any order among equal distances; when the index holds fewer
\* than k vectors the missing places hold the id -1.
FaissSearch(vectors, query, k) ==
    LET n == Len(vectors)
        found == Min(k, n)
        dist(id) == SqDist(query, vectors[id + 1])
    IN  {[r \in 1..k |-> IF r <= found THEN s[r] ELSE -1] :
            s \in {t \in [1..found -> 0..(n - 1)] :
                      /\ \A a, b \in 1..found : a < b =>
                             /\ t[a] # t[b]
                             /\ dist(t[a]) <= dist(t[b])
                      /\ \A id \in 0..(n - 1) :
                             (\A a \in 1..found : t[a] # id) =>
                                 \A a \in 1..found : dist(t[a]) <= dist(id)}}

FaissDistance(vectors, query, id) ==
    IF id >= 0 THEN SqDist(query, vectors[id + 1]) ELSE "FLT_MAX"

\* A search for top_k neighbours, whatever the corpus holds.
SearchKUnclamped == top_k

\* min(top_k, len(paths))
SearchK == Min(top_k, Len(paths))

\* one iteration of the loop over os.listdir(image_folder)
SearchScanStep ==
    /\ pc = "search_loop"
    /\ file_idx < Len(image_folder)
    /\ LET file == image_folder[file_idx + 1]
       IN  IF IsImageName(file) /\ get_embedding(file) # None
           THEN /\ embeddings' = Append(embeddings, get_embedding(file))
                /\ paths' = Append(paths, file_idx + 1)
           ELSE UNCHANGED <<embeddings, paths>>
    /\ file_idx' = file_idx + 1
    /\ UNCHANGED <<envVars, clipVars, pc, fault, calls, batchVars, cmpVars,
                   index_built, index_searched, search_results, fnVars>>

\* no file of the folder gave an embedding
SearchNoImages ==
    /\ pc = "search_loop"
    /\ file_idx = Len(image_folder)
    /\ embeddings = <<>>
    /\ search_results' = <<>>
    /\ pc' = "search_done"
    /\ UNCHANGED <<envVars, clipVars, fault, calls, batchVars, cmpVars, file_idx,
                   embeddings, paths, index_built, index_searched, fnVars>>

\* the index is built, and the query image has no embedding
SearchNoQuery ==
    /\ pc = "search_loop"
    /\ file_idx = Len(image_folder)
    /\ embeddings # <<>>
    /\ get_embedding(query_image) = None
    /\ index_built' = TRUE
    /\ search_results' = <<>>
    /\ pc' = "search_done"
    /\ UNCHANGED <<envVars, clipVars, fault, calls, batchVars, cmpVars, file_idx,
                   embeddings, paths, index_searched, fnVars>>

\* the index is built and searched, and the neighbours are listed
SearchQuery ==
    /\ pc = "search_loop"
    /\ file_idx = Len(image_folder)
    /\ embeddings # <<>>
    /\ get_embedding(query_image) # None
    /\ index_built' = TRUE
    /\ index_searched' = TRUE
    /\ LET query_embedding == get_embedding(query_image)
       IN  \E indices \in FaissSearch(embeddings, query_embedding, SearchK) :
               search_results' =
                   [r \in 1..Len(indices) |->
                       LET sim == cosine_similarity(query_embedding,
                                                    PyAt(embeddings, indices[r]))
                       IN  [rank |-> r,
                            path |-> PyAt(paths, indices[r]),
                            similarity |-> sim,
                            confidence |-> confidence_score(sim),
                            label |-> confidence_label(confidence_score(sim)),
                            distance |-> FaissDistance(embeddings, query_embedding,
                                                       indices[r])]]
    /\ pc' = "search_done"
    /\ UNCHANGED <<envVars, clipVars, fault, calls, batchVars, cmpVars, file_idx,
                   embeddings, paths, fnVars>>

InitSearch ==
    /\ NoBatchEnv
    /\ cuda_available \in BOOLEAN
    /\ image_folder \in SeqsUpTo(CorpusFiles, MaxCorpus)
    /\ query_image \in QueryFiles
    /\ top_k \in 1..MaxTopK
    /\ InitClip
    /\ pc = "search_load"
    /\ fault = "none"
    /\ calls = 0
    /\ InitBatchLocals
    /\ InitSearchLocals
    /\ NoFn

NextSearch ==
    \/ LoadSucceed
    \/ LoadFail
    \/ SearchScanStep
    \/ SearchNoImages
    \/ SearchNoQuery
    \/ SearchQuery

SpecSearch == InitSearch /\ [][NextSearch]_vars

\* the corpus images that give an embedding
ValidCorpus ==
    {f \in 1..Len(image_folder) :
        IsImageName(image_folder[f]) /\ get_embedding(image_folder[f]) # None}

QueryDistance(f) == SqDist(query_image.emb, image_folder[f].emb)

RanksAscending ==
    /\ \A r \in 1..Len(search_results) :
           /\ search_results[r].rank = r
           /\ search_results[r].path \in ValidCorpus
           /\ search_results[r].distance = QueryDistance(search_results[r].path)
    /\ \A a, b \in 1..Len(search_results) : a < b =>
           /\ search_results[a].path # search_results[b].path
           /\ search_results[a].distance <= search_results[b].distance
    /\ \A f \in ValidCorpus \ PathsOf(search_results) :
           \A r \in 1..Len(search_results) :
               search_results[r].distance <= QueryDistance(f)

\* C7 as stated: reverse_image_search_clip returns exactly min(top_k, n)
\* results, n the number of corpus images with an embedding, with the ranks
\* 1, 2, ... in order of ascending distance; when n = 0 the result is empty
\* and no index is built or searched.
C7_ExactlyMinResults ==
    pc = "search_done" =>
        /\ Len(search_results) = Min(top_k, Cardinality(ValidCorpus))
        /\ RanksAscending
        /\ ValidCorpus = {} => ~index_built /\ ~index_searched

\* C7 amended: when the query image has an embedding, exactly min(top_k, n)
\* results are returned, ranked 1, 2, ... by ascending distance; when it has
\* none and n > 0, the index is built, not searched, and the result is empty;
\* when n = 0 the result is empty and no index is built or searched.
C7_SearchResults ==
    pc = "search_done" =>
        /\ Len(search_results) =
               IF get_embedding(query_image) # None
               THEN Min(top_k, Cardinality(ValidCorpus))
               ELSE 0
        /\ RanksAscending
        /\ ValidCorpus = {} => ~index_built /\ ~index_searched
        /\ (ValidCorpus # {} /\ get_embedding(query_image) = None) =>
               index_built /\ ~index_searched

C7_Witness ==
    /\ pc = "search_done"
    /\ top_k > Cardinality(ValidCorpus)
    /\ Len(search_results) = 2
    /\ search_results[1].distance < search_results[2].distance
    /\ search_results[1].path > search_results[2].path

\* ------------------------------------------------------------------------
\* A process calling the functions of clip_comparison.py one after another
\* ------------------------------------------------------------------------
SessionRefFiles == {MissingFile, Undecodable, ImageFile(<<1, 0>>)}
SessionCandFiles == {ImageFile(<<3, 4>>)}
SessionCorpusFiles ==
    {CorpusFile(".jpg", Undecodable), CorpusFile(".jpg", ImageFile(<<1, 0>>))}
SessionQueryFiles == {Undecodable, ImageFile(<<1, 0>>)}

InitSession ==
    /\ original_folder \in Folders(SessionRefFiles, 1)
    /\ downloaded_folder \in Folders(SessionCandFiles, 1)
    /\ similarity_threshold = BatchThreshold
    /\ cuda_available \in BOOLEAN
    /\ image_folder \in SeqsUpTo(SessionCorpusFiles, 1)
    /\ query_image \in SessionQueryFiles
    /\ top_k = 1
    /\ InitClip
    /\ pc = "idle"
    /\ fault = "none"
    /\ calls = 0
    /\ InitBatchLocals
    /\ InitSearchLocals
    /\ NoFn

ClearBatchLocals ==
    /\ orig_idx' = 0
    /\ results' = <<>>
    /\ comparison' = NoValue
    /\ summary' = NoValue

ClearSearchLocals ==
    /\ file_idx' = 0
    /\ embeddings' = <<>>
    /\ paths' = <<>>
    /\ index_built' = FALSE
    /\ index_searched' = FALSE
    /\ search_results' = NoValue

\* load_clip_model()
CallLoadModel ==
    /\ pc = "idle"
    /\ calls < MaxCalls
    /\ calls' = calls + 1
    /\ pc' = "load_call"
    /\ UNCHANGED <<envVars, clipVars, fault, batchVars, cmpVars, searchVars,
                   fnVars>>

\* get_embedding(query_image), no model passed: load_clip_model is called
CallGetEmbedding ==
    /\ pc = "idle"
    /\ calls < MaxCalls
    /\ calls' = calls + 1
    /\ fn_in' = query_image
    /\ fn_out' = NoValue
    /\ pc' = "emb_load"
    /\ UNCHANGED <<envVars, clipVars, fault, batchVars, cmpVars, searchVars>>

\* the body of get_embedding after the model is there
EmbeddingReturn ==
    /\ pc = "emb_run"
    /\ fn_out' = get_embedding(fn_in)
    /\ pc' = "idle"
    /\ UNCHANGED <<envVars, clipVars, fault, calls, batchVars, cmpVars,
                   searchVars, fn_in>>

\* compare_original_with_downloaded(...), which calls compare_images_clip
CallBatch ==
    /\ pc = "idle"
    /\ calls < MaxCalls
    /\ calls' = calls + 1
    /\ pc' = "batch_entry"
    /\ UNCHANGED <<envVars, clipVars, fault, batchVars, cmpVars, searchVars,
                   fnVars>>

\* reverse_image_search_clip(image_folder, query_image, top_k)
CallSearch ==
    /\ pc = "idle"
    /\ calls < MaxCalls
    /\ calls' = calls + 1
    /\ pc' = "search_load"
    /\ UNCHANGED <<envVars, clipVars, fault, batchVars, cmpVars, searchVars,
                   fnVars>>

\* a call has returned or raised: its locals are gone, the globals stay
CallOver ==
    /\ pc \in {"batch_done", "search_done", "crashed"}
    /\ pc' = "idle"
    /\ fault' = "none"
    /\ ClearBatchLocals
    /\ ClearCompareLocals
    /\ ClearSearchLocals
    /\ UNCHANGED <<envVars, clipVars, calls, fnVars>>

NextSession ==
    \/ CallLoadModel
    \/ CallGetEmbedding
    \/ EmbeddingReturn
    \/ CallBatch
    \/ CallSearch
    \/ CallOver
    \/ BatchEarlyReturn
    \/ BatchBegin
    \/ CompareMissingRef
    \/ CompareEnter
    \/ LoadCached
    \/ LoadSucceed
    \/ LoadFail
    \/ CompareNoRefEmbedding
    \/ CompareInit
    \/ CompareStep
    \/ CompareReturn
    \/ BuildEntry
    \/ BuildEntryKeyError
    \/ BatchReturn
    \/ SearchScanStep
    \/ SearchNoImages
    \/ SearchNoQuery
    \/ SearchQuery

SpecSession == InitSession /\ [][NextSession]_vars

\* C9: over any sequence of calls, clip.load completes at most once: the first
\* call that loads sets the process-wide model, preprocess and device, and no
\* later call loads again or changes them.
C9_LoadedOnce ==
    /\ [](load_count <= 1)
    /\ [](load_count = 1 <=> clip_model # "None")
    /\ [][clip_model # "None" =>
             UNCHANGED <<clip_model, clip_preprocess, clip_device, load_count>>]_vars

C9_Witness ==
    /\ load_count = 1
    /\ model_reused
    /\ calls = 3
    /\ pc = "search_done"

\* ------------------------------------------------------------------------
\* confidence_label applied to a score
\* ------------------------------------------------------------------------
\* the scores 0, 1/ScoreGrain, 2/ScoreGrain, ..., 100
LabelScores == {Rat(n, ScoreGrain) : n \in 0..(Percent * ScoreGrain)}

InitLabel ==
    /\ NoBatchEnv
    /\ cuda_available = FALSE
    /\ NoSearchEnv
    /\ InitClip
    /\ pc = "label_call"
    /\ fault = "none"
    /\ calls = 0
    /\ InitBatchLocals
    /\ InitSearchLocals
    /\ fn_in \in LabelScores
    /\ fn_out = NoValue

ApplyConfidenceLabel ==
    /\ pc = "label_call"
    /\ fn_out' = confidence_label(fn_in)
    /\ pc' = "label_done"
    /\ UNCHANGED <<envVars, clipVars, fault, calls, batchVars, cmpVars,
                   searchVars, fn_in>>

SpecLabel == InitLabel /\ [][ApplyConfidenceLabel]_vars

\* C10: confidence_label gives "Extremely likely" for score > 95, else "Very
\* likely" for score > 90, else "Possibly" for score > 85, else "Unlikely"; a
\* score equal to 95, 90 or 85 falls into the next lower tier.
C10_LabelSteps ==
    pc = "label_done" =>
        LET n == fn_in[1]
            d == fn_in[2]
        IN  /\ fn_out = "Extremely likely the same image" <=> n > 95 * d
            /\ fn_out = "Very likely the same image" <=>
                   (n > 90 * d /\ n <= 95 * d)
            /\ fn_out = "Possibly the same image" <=>
                   (n > 85 * d /\ n <= 90 * d)
            /\ fn_out = "Unlikely to be the same image" <=> n <= 85 * d

C10_Witness ==
    /\ pc = "label_done"
    /\ fn_in = <<95, 1>>
    /\ fn_out = "Very likely the same image"

\* ------------------------------------------------------------------------
\* confidence_score applied to two similarities
\* ------------------------------------------------------------------------
\* the similarities -2, ..., -1/ScoreGrain, 0, 1/ScoreGrain, ..., 2
ScoreSimilarities == {Rat(n, ScoreGrain) : n \in (-2 * ScoreGrain)..(2 * ScoreGrain)}

InitScore ==
    /\ NoBatchEnv
    /\ cuda_available = FALSE
    /\ NoSearchEnv
    /\ InitClip
    /\ pc = "score_call"
    /\ fault = "none"
    /\ calls = 0
    /\ InitBatchLocals
    /\ InitSearchLocals
    /\ fn_in \in ScoreSimilarities \X ScoreSimilarities
    /\ fn_out = NoValue

ApplyConfidenceScore ==
    /\ pc = "score_call"
    /\ fn_out' = <<confidence_score(fn_in[1]), confidence_score(fn_in[2])>>
    /\ pc' = "score_done"
    /\ UNCHANGED <<envVars, clipVars, fault, calls, batchVars, cmpVars,
                   searchVars, fn_in>>

SpecScore == InitScore /\ [][ApplyConfidenceScore]_vars

\* the score c is clamp(s, 0, 1) * 100, by cross-multiplication
IsClampedPercent(s, c) ==
    /\ s[1] < 0 => c = <<0, 1>>
    /\ s[1] > s[2] => c = <<100, 1>>
    /\ (s[1] >= 0 /\ s[1] <= s[2]) => c[1] * s[2] = 100 * s[1] * c[2]
    /\ c[2] > 0
    /\ c[1] >= 0
    /\ c[1] <= 100 * c[2]

\* C11: confidence_score(s) is clamp(s, 0, 1) * 100 for every similarity s: it
\* lies in [0, 100], does not decrease when s grows, is 0 for every s below 0
\* and 100 for every s above 1.
C11_ClampedScore ==
    pc = "score_done" =>
        /\ IsClampedPercent(fn_in[1], fn_out[1])
        /\ IsClampedPercent(fn_in[2], fn_out[2])
        /\ fn_in[1][1] * fn_in[2][2] <= fn_in[2][1] * fn_in[1][2] =>
               fn_out[1][1] * fn_out[2][2] <= fn_out[2][1] * fn_out[1][2]

C11_Witness ==
    /\ pc = "score_done"
    /\ fn_in = <<(<<-1, 2>>), (<<3, 2>>)>>
    /\ fn_out = <<(<<0, 1>>), (<<100, 1>>)>>

====
